---- MODULE Spec2Model ----
(***************************************************************************)
(* Model of examples-src/mem_alloc_cuda_example.cpp: N MPI processes each  *)
(* run main().  Every process queries the memory allocation kinds of its   *)
(* session, negotiates CUDA awareness with two MPI_LAND reductions over    *)
(* system_comm, creates the communicator of the negotiated kind, and runs  *)
(* one MPI_SUM reduction over a managed, device or host-staged buffer.     *)
(*                                                                         *)
(* A program counter value "Lnn" means "about to execute the statement at  *)
(* source line nn".  A process that has entered a collective call keeps    *)
(* its pc at the call and holds the call in coll[p] until every process    *)
(* of the group has entered a matching call.                               *)
(***************************************************************************)
EXTENDS Integers, Sequences, FiniteSets, TLC

\* Number of processes in mpi://WORLD (a bound of the model).
NumProcs == 2

Procs == 1..NumProcs

\* sizeof(int): the byte count of every cudaMemcpyAsync of the program.
SizeofInt == 4

\* Bytes of an int object, least significant first.
IntBytes == 1..SizeofInt

\* The unit contribution every process stores in its buffer.
Contribution == 1

\* Identifiers of the memory allocation kinds.
KindSystem == "system"
KindDevice == "cuda:device"
KindManaged == "cuda:managed"
MemoryKinds == {KindSystem, KindDevice, KindManaged}

\* The int objects of one process: the two awareness flags (automatic
\* storage) and the three objects reached through managed_buf, device_buf
\* and system_buf.
Flags == {"cuda_managed_aware", "cuda_device_aware"}
Buffers == {"managed_buf", "device_buf", "system_buf"}
Cells == Flags \cup Buffers

\* The communicator handles of one process.
Comms == {"system_comm", "cuda_managed_comm", "cuda_device_comm"}

\* Value of "mpi_memory_alloc_kinds" when the key is absent (flag = 0).
NoKey == "<absent>"

\* Values the runtime may report for "mpi_memory_alloc_kinds": kinds among
\* the three requested at MPI_Session_init, or no key at all.  Every
\* combination of device and managed support occurs.
AdvertisedStrings ==
    { NoKey, "system", "cuda:device", "system,cuda:managed",
      "system,cuda:device,cuda:managed" }

\* Contents of storage that was allocated and never written.
Indeterminate == {0, 257}

NoCall == [op |-> "none"]

VARIABLES
    pc,          \* pc[p]: next statement of process p ("done" after exit)
    status,      \* status[p]: "running", "exit0", "exit1", "abort_assert", "abort_fault"
    kinds,       \* kinds[p]: value of mpi_memory_alloc_kinds in p's session
    flag,        \* flag[p]: the C variable flag
    val,         \* val[p]: the pointer val: "NULL", or "<uninit>" once malloc'ed
    nranks,      \* nranks[p]: the C variable nranks
    mem,         \* mem[p][c]: value of int object c
    ptr,         \* ptr[p][b]: "NULL", "freed", or the memory kind of the live allocation
    session,     \* session[p]: "none", "active", "finalized"
    wgroup,      \* wgroup[p]: "none", "live", "freed"
    comm,        \* comm[p][h]: [state, kind, tag] of communicator handle h
    stream,      \* stream[p]: copies issued on the default stream, not yet executed
    coll,        \* coll[p]: the collective call p is blocked in, or NoCall
    ops,         \* ops[p]: the collective calls p has entered, in order
    hostAccess,  \* hostAccess[p]: memory kinds host code has dereferenced
    nAcquire,    \* nAcquire[p][r]: times resource r was created or allocated
    nRelease,    \* nRelease[p][r]: times resource r was released
    diag         \* diag[p]: diagnostic lines printed

vars == <<pc, status, kinds, flag, val, nranks, mem, ptr, session, wgroup,
          comm, stream, coll, ops, hostAccess, nAcquire, nRelease, diag>>

Resources == Comms \cup Buffers

NullComm == [state |-> "null", kind |-> "none", tag |-> "none"]

\* ----------------------------------------------------------- pure helpers

\* strsep(&val, ","): the tokens of s between commas, empty tokens kept.
\* StrsepFrom scans s from position i; the current token starts at start.
RECURSIVE StrsepFrom(_, _, _)
StrsepFrom(s, start, i) ==
    IF i > Len(s) THEN <<SubSeq(s, start, Len(s))>>
    ELSE IF SubSeq(s, i, i) = ","
         THEN <<SubSeq(s, start, i - 1)>> \o StrsepFrom(s, i + 1, i + 1)
         ELSE StrsepFrom(s, start, i + 1)

Strsep(s) == StrsepFrom(s, 1, 1)

\* tolower() of one character.
ToLower(c) ==
    CASE c = "A" -> "a" [] c = "C" -> "c" [] c = "D" -> "d" [] c = "E" -> "e"
      [] c = "G" -> "g" [] c = "I" -> "i" [] c = "M" -> "m" [] c = "N" -> "n"
      [] c = "S" -> "s" [] c = "T" -> "t" [] c = "U" -> "u" [] c = "V" -> "v"
      [] c = "Y" -> "y" [] OTHER -> c

\* a and b, of equal length, agree from position i on, ignoring case.
RECURSIVE EqualFrom(_, _, _)
EqualFrom(a, b, i) ==
    IF i > Len(a) THEN TRUE
    ELSE /\ ToLower(SubSeq(a, i, i)) = ToLower(SubSeq(b, i, i))
         /\ EqualFrom(a, b, i + 1)

\* strcasecmp(a, b) == 0
Strcmp0(a, b) == a = b

Strcasecmp0(a, b) == Len(a) = Len(b) /\ EqualFrom(a, b, 1)

\* The while loop over strsep, from token k on: the pair of awareness flags
\* <<cuda_managed_aware, cuda_device_aware>> after all tokens.
RECURSIVE ParseLoop(_, _, _, _)
ParseLoop(toks, k, m, d) ==
    IF k > Len(toks) THEN <<m, d>>
    ELSE IF Strcasecmp0(toks[k], KindManaged) THEN ParseLoop(toks, k + 1, 1, d)
    ELSE IF Strcasecmp0(toks[k], KindDevice) THEN ParseLoop(toks, k + 1, m, 1)
    ELSE ParseLoop(toks, k + 1, m, d)

\* The flags stored into the wrong variables.
ParseKindsSwapped(s) ==
    <<ParseLoop(Strsep(s), 1, 0, 0)[2], ParseLoop(Strsep(s), 1, 0, 0)[1]>>

ParseKinds(s) == ParseLoop(Strsep(s), 1, 0, 0)


\* Byte i (1 = least significant) of the int v.
Byte(v, i) == (v \div (256 ^ (i - 1))) % 256

\* The int whose bytes are given by b.
RECURSIVE FromBytes(_, _)
FromBytes(b, i) ==
    IF i > SizeofInt THEN 0
    ELSE b[i] * (256 ^ (i - 1)) + FromBytes(b, i + 1)

\* cudaMemcpyAsync(dst, src, count, ...), once executed by the stream: the
\* first count bytes of *dst are replaced by those of *src.
MemcpyOneByte(dstVal, srcVal, count) ==
    FromBytes([i \in IntBytes |-> IF i <= 1 THEN Byte(srcVal, i)
                                           ELSE Byte(dstVal, i)], 1)

Memcpy(dstVal, srcVal, count) ==
    FromBytes([i \in IntBytes |-> IF i <= count THEN Byte(srcVal, i)
                                               ELSE Byte(dstVal, i)], 1)

RECURSIVE SumUpTo(_, _)
SumUpTo(vals, n) == IF n = 0 THEN 0 ELSE vals[n] + SumUpTo(vals, n - 1)

\* MPI_Allreduce(MPI_IN_PLACE, buf, 1, MPI_INT, rop, comm): the value left
\* in the buffer of process p, given every process's contribution.
AllreduceLor(rop, vals, p) ==
    IF rop = "MPI_LAND" THEN (IF \E q \in Procs : vals[q] # 0 THEN 1 ELSE 0)
    ELSE SumUpTo(vals, NumProcs)

AllreduceFirstRank(rop, vals, p) ==
    IF rop = "MPI_LAND" THEN (IF vals[1] # 0 THEN 1 ELSE 0)
    ELSE SumUpTo(vals, NumProcs)

AllreduceRootOnly(rop, vals, p) ==
    IF p # 1 THEN vals[p]
    ELSE IF rop = "MPI_LAND" THEN (IF \A q \in Procs : vals[q] # 0 THEN 1 ELSE 0)
    ELSE SumUpTo(vals, NumProcs)

Allreduce(rop, vals, p) ==
    IF rop = "MPI_LAND" THEN (IF \A q \in Procs : vals[q] # 0 THEN 1 ELSE 0)
    ELSE SumUpTo(vals, NumProcs)

\* ------------------------------------------------------------- call sites

SystemCommCreate ==
    [op |-> "create", h |-> "system_comm", kind |-> KindSystem,
     tag |-> "org.mpi-side-doc.mem-kind.example.system"]

ManagedCommCreate ==
    [op |-> "create", h |-> "cuda_managed_comm", kind |-> KindManaged,
     tag |-> "org.mpi-side-doc.mem-kind.example.cuda.managed"]

DeviceCommCreate ==
    [op |-> "create", h |-> "cuda_device_comm", kind |-> KindDevice,
     tag |-> "org.mpi-side-doc.mem-kind.example.cuda.device"]

ManagedCheckOnDeviceFlag ==
    [op |-> "allreduce", rop |-> "MPI_LAND", buf |-> "cuda_device_aware",
     h |-> "system_comm"]

ManagedCheckCall ==
    [op |-> "allreduce", rop |-> "MPI_LAND", buf |-> "cuda_managed_aware",
     h |-> "system_comm"]

DeviceCheckCall ==
    [op |-> "allreduce", rop |-> "MPI_LAND", buf |-> "cuda_device_aware",
     h |-> "system_comm"]

ManagedSumCall ==
    [op |-> "allreduce", rop |-> "MPI_SUM", buf |-> "managed_buf",
     h |-> "cuda_managed_comm"]

DeviceSumCall ==
    [op |-> "allreduce", rop |-> "MPI_SUM", buf |-> "device_buf",
     h |-> "cuda_device_comm"]

FallbackSumOnDevice ==
    [op |-> "allreduce", rop |-> "MPI_SUM", buf |-> "device_buf",
     h |-> "system_comm"]

FallbackSumCall ==
    [op |-> "allreduce", rop |-> "MPI_SUM", buf |-> "system_buf",
     h |-> "system_comm"]

\* Statement executed after the collective call at line l returns.
ContNoElse(l) ==
    CASE l = "L60" -> "L65"
      [] l = "L69" -> "L72"
      [] l = "L78" -> "L87"
      [] l = "L85" -> "L87"
      [] l = "L93" -> "L103"
      [] l = "L113" -> "L116"
      [] l = "L134" -> "L137"
      [] l = "L146" -> "L148"

Cont(l) ==
    CASE l = "L60" -> "L65"
      [] l = "L69" -> "L72"
      [] l = "L78" -> "L103"
      [] l = "L85" -> "L87"
      [] l = "L93" -> "L103"
      [] l = "L113" -> "L116"
      [] l = "L134" -> "L137"
      [] l = "L146" -> "L148"

\* Memory kind of int object c of process p: the flags are host (system)
\* memory, a buffer has the kind of the allocator that returned it.
KindOf(p, c) == IF c \in Flags THEN KindSystem ELSE ptr[p][c]

\* The call as it reaches the MPI library: a communicator creation names
\* the asserted kind and the string tag, a reduction names the communicator
\* (by the tag and kind it was created with), the operator and the buffer.
Issued(p, call) ==
    IF call.op = "create"
    THEN [op |-> "create", h |-> call.h, kind |-> call.kind, tag |-> call.tag,
          rop |-> "none", buf |-> "none", bufKind |-> "none"]
    ELSE [op |-> "allreduce", h |-> call.h, kind |-> comm[p][call.h].kind,
          tag |-> comm[p][call.h].tag, rop |-> call.rop, buf |-> call.buf,
          bufKind |-> KindOf(p, call.buf)]

\* Two processes are in the same collective operation.
Matches(c, d) ==
    /\ c.op = d.op
    /\ c.tag = d.tag
    /\ c.tag # "none"
    /\ c.rop = d.rop

\* ------------------------------------------------------------------- Init

Init ==
    /\ pc = [p \in Procs |-> "L23"]
    /\ status = [p \in Procs |-> "running"]
    /\ kinds \in [Procs -> AdvertisedStrings]
    /\ flag = [p \in Procs |-> 0]
    /\ val = [p \in Procs |-> "NULL"]
    /\ nranks = [p \in Procs |-> 0]
    /\ mem = [p \in Procs |-> [c \in Cells |-> 0]]
    /\ ptr = [p \in Procs |-> [b \in Buffers |-> "NULL"]]
    /\ session = [p \in Procs |-> "none"]
    /\ wgroup = [p \in Procs |-> "none"]
    /\ comm = [p \in Procs |-> [h \in Comms |-> NullComm]]
    /\ stream = [p \in Procs |-> <<>>]
    /\ coll = [p \in Procs |-> NoCall]
    /\ ops = [p \in Procs |-> <<>>]
    /\ hostAccess = [p \in Procs |-> {}]
    /\ nAcquire = [p \in Procs |-> [r \in Resources |-> 0]]
    /\ nRelease = [p \in Procs |-> [r \in Resources |-> 0]]
    /\ diag = [p \in Procs |-> 0]

\* --------------------------------------------------------- building blocks

Goto(p, l) == pc' = [pc EXCEPT ![p] = l]

At(p, l) == pc[p] = l /\ coll[p] = NoCall

\* Process p enters the collective call, blocking at line l.
Enter(p, l, call) ==
    /\ Goto(p, l)
    /\ coll' = [coll EXCEPT ![p] = Issued(p, call)]
    /\ ops' = [ops EXCEPT ![p] = Append(@, Issued(p, call))]


\* Outcomes of host code evaluating *b.  System and managed memory are
\* host-accessible.  Any other pointer (device memory, NULL, freed) is not
\* dereferenceable by the host: the behaviour is undefined, and the read
\* either faults or yields the stored or an indeterminate value.
HostDeref(p, b) ==
    IF KindOf(p, b) \in {KindSystem, KindManaged}
    THEN {[fault |-> FALSE, value |-> mem[p][b]]}
    ELSE {[fault |-> TRUE, value |-> 0]}
         \cup {[fault |-> FALSE, value |-> v] : v \in {mem[p][b]} \cup Indeterminate}

\* The condition of "if (comm != MPI_COMM_NULL)" before a disconnect.
NotCommNullCopyPaste(p, h) == comm[p]["cuda_managed_comm"].state # "null"

NotCommNull(p, h) == comm[p][h].state # "null"

\* cudaStreamSynchronize(cudaStreamDefault) returns.
StreamNeverWaits(p) == TRUE

StreamDrained(p) == stream[p] = <<>>

\* ------------------------------------------------------ lines 23-55: query

\* Lines 23-33: MPI_Session_init, MPI_Session_get_info, and
\* MPI_Info_get_string for the length of "mpi_memory_alloc_kinds"; flag
\* tells whether the key is present.
SessionInit(p) ==
    /\ At(p, "L23")
    /\ session' = [session EXCEPT ![p] = "active"]
    /\ flag' = [flag EXCEPT ![p] = IF kinds[p] = NoKey THEN 0 ELSE 1]
    /\ Goto(p, IF kinds[p] = NoKey THEN "L53" ELSE "L36")
    /\ UNCHANGED <<status, kinds, val, nranks, mem, ptr, wgroup, comm,
                   stream, coll, ops, hostAccess, nAcquire, nRelease, diag>>

\* Lines 36-37: malloc(len); a NULL result returns 1 from main.
MallocValAfterGroup(p) ==
    /\ At(p, "L36")
    /\ \/ /\ val' = [val EXCEPT ![p] = "<uninit>"]
          /\ Goto(p, "L39")
          /\ UNCHANGED <<status, wgroup>>
       \/ /\ val' = val
          /\ wgroup' = [wgroup EXCEPT ![p] = "live"]
          /\ Goto(p, "done")
          /\ status' = [status EXCEPT ![p] = "exit1"]
    /\ UNCHANGED <<kinds, flag, nranks, mem, ptr, session, comm,
                   stream, coll, ops, hostAccess, nAcquire, nRelease, diag>>

MallocVal(p) ==
    /\ At(p, "L36")
    /\ \/ /\ val' = [val EXCEPT ![p] = "<uninit>"]
          /\ Goto(p, "L39")
          /\ UNCHANGED status
       \/ /\ val' = val
          /\ Goto(p, "done")
          /\ status' = [status EXCEPT ![p] = "exit1"]
    /\ UNCHANGED <<kinds, flag, nranks, mem, ptr, session, wgroup, comm,
                   stream, coll, ops, hostAccess, nAcquire, nRelease, diag>>

\* Lines 39-50: read the string, run the strsep loop, free the copy.
ParseInfo(p) ==
    /\ At(p, "L39")
    /\ LET r == ParseKinds(kinds[p])
       IN  mem' = [mem EXCEPT ![p]["cuda_managed_aware"] = r[1],
                              ![p]["cuda_device_aware"] = r[2]]
    /\ val' = [val EXCEPT ![p] = "NULL"]
    /\ Goto(p, "L53")
    /\ UNCHANGED <<status, kinds, flag, nranks, ptr, session, wgroup, comm,
                   stream, coll, ops, hostAccess, nAcquire, nRelease, diag>>

\* ------------------------------------------------ lines 53-103: negotiation

\* Lines 53-63: MPI_Info_free, MPI_Group_from_session_pset, then
\* MPI_Comm_create_from_group asserting "system".
CreateSystemComm(p) ==
    /\ At(p, "L53")
    /\ wgroup' = [wgroup EXCEPT ![p] = "live"]
    /\ Enter(p, "L60", SystemCommCreate)
    /\ UNCHANGED <<status, kinds, flag, val, nranks, mem, ptr, session,
                   comm, stream, hostAccess, nAcquire, nRelease, diag>>

\* Lines 65-70: MPI_Comm_size, then MPI_LAND over cuda_managed_aware on
\* system_comm.
CheckManaged(p) ==
    /\ At(p, "L65")
    /\ nranks' = [nranks EXCEPT ![p] = Cardinality(Procs)]
    /\ Enter(p, "L69", ManagedCheckCall)
    /\ UNCHANGED <<status, kinds, flag, val, mem, ptr, session, wgroup,
                   comm, stream, hostAccess, nAcquire, nRelease, diag>>

\* Lines 72-82: cuda_managed_aware is set: create cuda_managed_comm.
CreateManagedComm(p) ==
    /\ At(p, "L72")
    /\ mem[p]["cuda_managed_aware"] # 0
    /\ Enter(p, "L78", ManagedCommCreate)
    /\ UNCHANGED <<status, kinds, flag, val, nranks, mem, ptr, session, wgroup,
                   comm, stream, hostAccess, nAcquire, nRelease, diag>>

\* Lines 83-86: otherwise MPI_LAND over cuda_device_aware on system_comm.
CheckDevice(p) ==
    /\ At(p, "L72")
    /\ mem[p]["cuda_managed_aware"] = 0
    /\ Enter(p, "L85", DeviceCheckCall)
    /\ UNCHANGED <<status, kinds, flag, val, nranks, mem, ptr, session, wgroup,
                   comm, stream, hostAccess, nAcquire, nRelease, diag>>

\* Lines 87-97: cuda_device_aware is set: create cuda_device_comm.
CreateDeviceComm(p) ==
    /\ At(p, "L87")
    /\ mem[p]["cuda_device_aware"] # 0
    /\ Enter(p, "L93", DeviceCommCreate)
    /\ UNCHANGED <<status, kinds, flag, val, nranks, mem, ptr, session, wgroup,
                   comm, stream, hostAccess, nAcquire, nRelease, diag>>

\* Lines 98-100: otherwise print the warning.
WarnNoCuda(p) ==
    /\ At(p, "L87")
    /\ mem[p]["cuda_device_aware"] = 0
    /\ diag' = [diag EXCEPT ![p] = @ + 1]
    /\ Goto(p, "L103")
    /\ UNCHANGED <<status, kinds, flag, val, nranks, mem, ptr, session, wgroup,
                   comm, stream, coll, ops, hostAccess, nAcquire, nRelease>>

\* Line 103: MPI_Group_free.
GroupFree(p) ==
    /\ At(p, "L103")
    /\ wgroup' = [wgroup EXCEPT ![p] = "freed"]
    /\ Goto(p, "L106")
    /\ UNCHANGED <<status, kinds, flag, val, nranks, mem, ptr, session, comm,
                   stream, coll, ops, hostAccess, nAcquire, nRelease, diag>>

\* Every process of the group has entered the same collective operation:
\* the operation completes and every process returns from its call.  A
\* communicator creation makes the handle live with the asserted kind; a
\* reduction leaves the reduced value in every process's buffer.
Complete ==
    /\ \A p \in Procs : coll[p] # NoCall
    /\ \A p, q \in Procs : Matches(coll[p], coll[q])
    /\ mem' = [p \in Procs |->
                 IF coll[p].op = "allreduce"
                 THEN [mem[p] EXCEPT ![coll[p].buf] =
                          Allreduce(coll[p].rop,
                                    [q \in Procs |-> mem[q][coll[q].buf]], p)]
                 ELSE mem[p]]
    /\ comm' = [p \in Procs |->
                 IF coll[p].op = "create"
                 THEN [comm[p] EXCEPT ![coll[p].h] =
                          [state |-> "live", kind |-> coll[p].kind,
                           tag |-> coll[p].tag]]
                 ELSE comm[p]]
    /\ nAcquire' = [p \in Procs |->
                 IF coll[p].op = "create"
                 THEN [nAcquire[p] EXCEPT ![coll[p].h] = @ + 1]
                 ELSE nAcquire[p]]
    /\ pc' = [p \in Procs |-> Cont(pc[p])]
    /\ coll' = [p \in Procs |-> NoCall]
    /\ UNCHANGED <<status, kinds, flag, val, nranks, ptr, session, wgroup,
                   stream, ops, hostAccess, nRelease, diag>>


\* ------------------------------------------- lines 105-157: the three paths

\* An allocator returns storage of the given kind with indeterminate contents.
Allocate(p, l, b, kind, next) ==
    /\ At(p, l)
    /\ ptr' = [ptr EXCEPT ![p][b] = kind]
    /\ \E v \in Indeterminate : mem' = [mem EXCEPT ![p][b] = v]
    /\ nAcquire' = [nAcquire EXCEPT ![p][b] = @ + 1]
    /\ Goto(p, next)
    /\ UNCHANGED <<status, kinds, flag, val, nranks, session, wgroup, comm,
                   stream, coll, ops, hostAccess, nRelease, diag>>

\* An allocator returns host-accessible storage of the given kind and host
\* code executes "*b = 1".
AllocateInit(p, l, b, kind, next) ==
    /\ At(p, l)
    /\ ptr' = [ptr EXCEPT ![p][b] = kind]
    /\ mem' = [mem EXCEPT ![p][b] = Contribution]
    /\ hostAccess' = [hostAccess EXCEPT ![p] = @ \cup {kind}]
    /\ nAcquire' = [nAcquire EXCEPT ![p][b] = @ + 1]
    /\ Goto(p, next)
    /\ UNCHANGED <<status, kinds, flag, val, nranks, session, wgroup, comm,
                   stream, coll, ops, nRelease, diag>>

\* Host code executes "assert((*b) == nranks)".
HostAssert(p, l, b, next) ==
    /\ At(p, l)
    /\ hostAccess' = [hostAccess EXCEPT ![p] = @ \cup {KindOf(p, b)}]
    /\ \E o \in HostDeref(p, b) :
          IF o.fault
          THEN Goto(p, "done") /\ status' = [status EXCEPT ![p] = "abort_fault"]
          ELSE IF o.value # nranks[p]
          THEN Goto(p, "done") /\ status' = [status EXCEPT ![p] = "abort_assert"]
          ELSE Goto(p, next) /\ UNCHANGED status
    /\ UNCHANGED <<kinds, flag, val, nranks, mem, ptr, session, wgroup, comm,
                   stream, coll, ops, nAcquire, nRelease, diag>>

\* cudaMemcpyAsync(dst, src, sizeof(int), direction, 0): the copy is queued
\* on the default stream and the call returns.
MemcpyAsync(p, l, dst, src, next) ==
    /\ At(p, l)
    /\ stream' = [stream EXCEPT ![p] =
                     Append(@, [dst |-> dst, src |-> src, count |-> SizeofInt])]
    /\ Goto(p, next)
    /\ UNCHANGED <<status, kinds, flag, val, nranks, mem, ptr, session, wgroup,
                   comm, coll, ops, hostAccess, nAcquire, nRelease, diag>>

\* cudaStreamSynchronize(cudaStreamDefault): returns once the stream is empty.
StreamSynchronize(p, l, next) ==
    /\ At(p, l)
    /\ StreamDrained(p)
    /\ Goto(p, next)
    /\ UNCHANGED <<status, kinds, flag, val, nranks, mem, ptr, session, wgroup,
                   comm, stream, coll, ops, hostAccess, nAcquire, nRelease, diag>>

\* cudaFree / free.
Free(p, l, b, next) ==
    /\ At(p, l)
    /\ ptr' = [ptr EXCEPT ![p][b] = "freed"]
    /\ mem' = [mem EXCEPT ![p][b] = 0]
    /\ nRelease' = [nRelease EXCEPT ![p][b] = @ + 1]
    /\ Goto(p, next)
    /\ UNCHANGED <<status, kinds, flag, val, nranks, session, wgroup, comm,
                   stream, coll, ops, hostAccess, nAcquire, diag>>

\* The device executes the oldest queued copy of p's default stream.
StreamExec(p) ==
    /\ stream[p] # <<>>
    /\ LET c == Head(stream[p])
       IN  mem' = [mem EXCEPT ![p][c.dst] =
                      Memcpy(mem[p][c.dst], mem[p][c.src], c.count)]
    /\ stream' = [stream EXCEPT ![p] = Tail(@)]
    /\ UNCHANGED <<pc, status, kinds, flag, val, nranks, ptr, session, wgroup,
                   comm, coll, ops, hostAccess, nAcquire, nRelease, diag>>

\* Lines 106-109: cuda_managed_aware is set: cudaMallocManaged, then
\* *managed_buf = 1.
MallocManaged(p) ==
    /\ mem[p]["cuda_managed_aware"] # 0
    /\ AllocateInit(p, "L106", "managed_buf", KindManaged, "L113")

\* Lines 113-114: MPI_SUM over managed_buf on cuda_managed_comm.
ManagedSum(p) ==
    /\ At(p, "L113")
    /\ Enter(p, "L113", ManagedSumCall)
    /\ UNCHANGED <<status, kinds, flag, val, nranks, mem, ptr, session, wgroup,
                   comm, stream, hostAccess, nAcquire, nRelease, diag>>

\* Line 116: assert((*managed_buf) == nranks).
AssertManaged(p) == HostAssert(p, "L116", "managed_buf", "L118")

\* Line 118: cudaFree(managed_buf).
FreeManaged(p) == Free(p, "L118", "managed_buf", "L159")

\* Lines 120-123: otherwise malloc the system buffer, then *system_buf = 1.
MallocSystem(p) ==
    /\ mem[p]["cuda_managed_aware"] = 0
    /\ AllocateInit(p, "L106", "system_buf", KindSystem, "L126")

\* Line 126: cudaMalloc the device buffer.
CudaMallocDevice(p) == Allocate(p, "L126", "device_buf", KindDevice, "L127")

\* Lines 127-128: copy system_buf to device_buf.
CopyInit(p) == MemcpyAsync(p, "L127", "device_buf", "system_buf", "L130")

\* Line 130: cudaStreamSynchronize.
SyncInit(p) == StreamSynchronize(p, "L130", "L131")

\* Lines 131-135: cuda_device_aware is set: MPI_SUM over device_buf on
\* cuda_device_comm.
DeviceSum(p) ==
    /\ At(p, "L131")
    /\ mem[p]["cuda_device_aware"] # 0
    /\ Enter(p, "L134", DeviceSumCall)
    /\ UNCHANGED <<status, kinds, flag, val, nranks, mem, ptr, session, wgroup,
                   comm, stream, hostAccess, nAcquire, nRelease, diag>>

\* Line 137: assert((*device_buf) == nranks).
AssertDevice(p) == HostAssert(p, "L137", "device_buf", "L155")

\* Lines 139-143: otherwise copy device_buf to system_buf.
StageOutOnManagedFlag(p) ==
    /\ mem[p]["cuda_managed_aware"] = 0
    /\ MemcpyAsync(p, "L131", "system_buf", "device_buf", "L145")

StageOut(p) ==
    /\ mem[p]["cuda_device_aware"] = 0
    /\ MemcpyAsync(p, "L131", "system_buf", "device_buf", "L145")

\* Line 145: cudaStreamSynchronize.
SyncStageOut(p) == StreamSynchronize(p, "L145", "L146")

\* Lines 146-147: MPI_SUM over system_buf on system_comm.
FallbackSum(p) ==
    /\ At(p, "L146")
    /\ Enter(p, "L146", FallbackSumCall)
    /\ UNCHANGED <<status, kinds, flag, val, nranks, mem, ptr, session, wgroup,
                   comm, stream, hostAccess, nAcquire, nRelease, diag>>

\* Lines 148-149: copy system_buf back to device_buf.
StageBackWrongDirection(p) ==
    MemcpyAsync(p, "L148", "system_buf", "device_buf", "L151")

StageBack(p) == MemcpyAsync(p, "L148", "device_buf", "system_buf", "L151")

\* Line 151: cudaStreamSynchronize.
SyncStageBack(p) == StreamSynchronize(p, "L151", "L152")

\* Line 152: assert((*system_buf) == nranks).
AssertSystem(p) == HostAssert(p, "L152", "system_buf", "L155")

\* Line 155: cudaFree(device_buf).
FreeDevice(p) == Free(p, "L155", "device_buf", "L156")

\* Line 156: free(system_buf).
FreeSystem(p) == Free(p, "L156", "system_buf", "L159")

\* ------------------------------------------------- lines 159-167: teardown

\* The communicator handles of p after MPI_Comm_disconnect of those in hs:
\* each is released and becomes MPI_COMM_NULL.
Disconnected(p, hs) ==
    [h \in Comms |-> IF h \in hs THEN NullComm ELSE comm[p][h]]

\* Lines 159-162: disconnect cuda_managed_comm and cuda_device_comm, each
\* if it is not MPI_COMM_NULL.
DisconnectCuda(p) ==
    /\ At(p, "L159")
    /\ LET hs == {h \in {"cuda_managed_comm", "cuda_device_comm"} :
                    NotCommNull(p, h)}
       IN  /\ comm' = [comm EXCEPT ![p] = Disconnected(p, hs)]
           /\ nRelease' = [nRelease EXCEPT ![p] =
                  [r \in Resources |-> IF r \in hs THEN @[r] + 1 ELSE @[r]]]
    /\ Goto(p, "L163")
    /\ UNCHANGED <<status, kinds, flag, val, nranks, mem, ptr, session, wgroup,
                   stream, coll, ops, hostAccess, nAcquire, diag>>

\* Line 163: disconnect system_comm.
DisconnectSystem(p) ==
    /\ At(p, "L163")
    /\ comm' = [comm EXCEPT ![p] = Disconnected(p, {"system_comm"})]
    /\ nRelease' = [nRelease EXCEPT ![p]["system_comm"] = @ + 1]
    /\ Goto(p, "L165")
    /\ UNCHANGED <<status, kinds, flag, val, nranks, mem, ptr, session, wgroup,
                   stream, coll, ops, hostAccess, nAcquire, diag>>

\* Lines 165-167: MPI_Session_finalize, return 0.
SessionFinalize(p) ==
    /\ At(p, "L165")
    /\ session' = [session EXCEPT ![p] = "finalized"]
    /\ status' = [status EXCEPT ![p] = "exit0"]
    /\ Goto(p, "done")
    /\ UNCHANGED <<kinds, flag, val, nranks, mem, ptr, wgroup, comm,
                   stream, coll, ops, hostAccess, nAcquire, nRelease, diag>>

\* ------------------------------------------------------------ specification

\* One step of main() in process p.
Step(p) ==
    \/ SessionInit(p) \/ MallocVal(p) \/ ParseInfo(p)
    \/ CreateSystemComm(p) \/ CheckManaged(p)
    \/ CreateManagedComm(p) \/ CheckDevice(p)
    \/ CreateDeviceComm(p) \/ WarnNoCuda(p) \/ GroupFree(p)
    \/ MallocManaged(p) \/ ManagedSum(p) \/ AssertManaged(p) \/ FreeManaged(p)
    \/ MallocSystem(p) \/ CudaMallocDevice(p) \/ CopyInit(p)
    \/ SyncInit(p) \/ DeviceSum(p) \/ AssertDevice(p)
    \/ StageOut(p) \/ SyncStageOut(p) \/ FallbackSum(p) \/ StageBack(p)
    \/ SyncStageBack(p) \/ AssertSystem(p) \/ FreeDevice(p) \/ FreeSystem(p)
    \/ DisconnectCuda(p) \/ DisconnectSystem(p) \/ SessionFinalize(p)

Next ==
    \/ \E p \in Procs : Step(p)
    \/ \E p \in Procs : StreamExec(p)
    \/ Complete

Spec == Init /\ [][Next]_vars

\* Processes, the device and the MPI library keep running: as long as some
\* process can execute a statement, a queued copy can execute or a
\* collective can complete, one of them eventually does.
FairSpec == Spec /\ WF_vars(Next)


\* ================================================================== claims

\* The kinds named by each value of mpi_memory_alloc_kinds: those equal to
\* one of its comma-separated tokens.
AdvertisedKinds ==
    [s \in AdvertisedStrings |->
        IF s = NoKey THEN {}
        ELSE {k \in MemoryKinds : \E i \in 1..Len(Strsep(s)) : Strsep(s)[i] = k}]

\* Process p advertises kind k.
Advertises(p, k) == k \in AdvertisedKinds[kinds[p]]

\* Statements of lines 23-101: the query and the negotiation.
NegotiationLabels ==
    {"L23", "L36", "L39", "L53", "L60", "L65", "L69", "L72", "L78", "L85",
     "L87", "L93"}

\* Process p has left the negotiation (it is past line 101).
Negotiated(p) == pc[p] \notin NegotiationLabels /\ status[p] # "exit1"

\* The kind the branches at lines 106 and 131 select.
NegotiatedKind(p) ==
    IF mem[p]["cuda_managed_aware"] # 0 THEN KindManaged
    ELSE IF mem[p]["cuda_device_aware"] # 0 THEN KindDevice
    ELSE KindSystem

CommonKind ==
    IF \A q \in Procs : Advertises(q, KindManaged) THEN KindManaged
    ELSE IF \A q \in Procs : Advertises(q, KindDevice) THEN KindDevice
    ELSE KindSystem

\* C1: once a process has finished the negotiation, its negotiated kind is
\* Managed if every process advertises Managed, otherwise Device if every
\* process advertises Device, otherwise System; so all processes agree.
C1_NegotiatedKind ==
    \A p \in Procs : Negotiated(p) => NegotiatedKind(p) = CommonKind

\* Two processes with different advertised values have both negotiated
\* Device.
C1_Witness ==
    /\ \A p \in Procs : Negotiated(p) /\ NegotiatedKind(p) = KindDevice
    /\ \E p, q \in Procs : kinds[p] # kinds[q]

\* C2: after the sum reduction the copy checked by the verification holds
\* the number of processes, and no process aborts in its verification.
C2_VerificationPasses ==
    \A p \in Procs :
        /\ status[p] \notin {"abort_assert", "abort_fault"}
        /\ pc[p] = "L116" => mem[p]["managed_buf"] = NumProcs
        /\ pc[p] = "L137" => mem[p]["device_buf"] = NumProcs
        /\ pc[p] \in {"L148", "L151", "L152"} => mem[p]["system_buf"] = NumProcs

\* What identifies a group operation: its type, the communicator (tag and
\* asserted kind) and the reduction operator.
OpSig(c) == <<c.op, c.tag, c.kind, c.rop>>

MinLen(a, b) == IF Len(a) <= Len(b) THEN Len(a) ELSE Len(b)

\* C3: the k-th group operation of every process is the same operation on
\* the same communicator with the same operator, no two processes are
\* blocked in different operations, and processes that exit normally have
\* entered the same sequence.
C3_SameCollectiveSequence ==
    \A p, q \in Procs :
        /\ \A k \in 1..MinLen(ops[p], ops[q]) : OpSig(ops[p][k]) = OpSig(ops[q][k])
        /\ coll[p] # NoCall /\ coll[q] # NoCall => Matches(coll[p], coll[q])
        /\ status[p] = "exit0" /\ status[q] = "exit0" => Len(ops[p]) = Len(ops[q])

\* Two processes with different advertised values have each entered five
\* group operations (the Device path).
C3_Witness ==
    \E p, q \in Procs :
        /\ kinds[p] # kinds[q]
        /\ Len(ops[p]) = 5 /\ Len(ops[q]) = 5

\* C4: unless an allocation fails, every process eventually exits with
\* code 0.
C4_AllExitZero ==
    <>((\A p \in Procs : status[p] = "exit0") \/ (\E p \in Procs : status[p] = "exit1"))

\* C5: every reduction a process has issued is on a communicator whose
\* asserted memory kind is the kind of the buffer passed to it.
C5_CommKindMatchesBuffer ==
    \A p \in Procs : \A k \in 1..Len(ops[p]) :
        ops[p][k].op = "allreduce" => ops[p][k].kind = ops[p][k].bufKind

\* A sum reduction over the device buffer on the device communicator, and
\* one over the host scratch buffer on the system communicator.
C5_Witness ==
    \E p \in Procs : \E k \in 1..Len(ops[p]) :
        /\ ops[p][k].rop = "MPI_SUM"
        /\ ops[p][k].bufKind = KindDevice
        /\ ops[p][k].kind = KindDevice

\* Destinations of the copies queued and not yet executed.
PendingDst(p) == {stream[p][i].dst : i \in 1..Len(stream[p])}

\* The buffers the statement at line l reads, passes to a collective, names
\* as the source of a copy, or frees.
UsedAt(l) ==
    CASE l \in {"L113", "L116", "L118"} -> {"managed_buf"}
      [] l \in {"L131", "L134", "L137", "L155"} -> {"device_buf"}
      [] l \in {"L146", "L148", "L152", "L156"} -> {"system_buf"}
      [] OTHER -> {}

\* C6: no process is at (or blocked in) a statement that uses a buffer
\* which is the destination of a copy that has not been synchronized.
C6_NoUseBeforeSynchronize ==
    \A p \in Procs : UsedAt(pc[p]) \cap PendingDst(p) = {}

\* A process waits in cudaStreamSynchronize while its copy is still queued.
C6_Witness ==
    \E p \in Procs : pc[p] = "L145" /\ PendingDst(p) = {"system_buf"}

\* C7: host code never dereferences device memory.
C7_DeviceNeverHostAccessed ==
    \A p \in Procs : KindDevice \notin hostAccess[p]


\* ------------------------------------------------------- staging round trip

\* Bound of the staged values: each of the two low bytes ranges over
\* 0..MaxStageByte.
MaxStageByte == 3

StageValues == {hi * 256 + lo : hi, lo \in 0..MaxStageByte}

\* The process whose staging operations are exercised.
StageProc == CHOOSE p \in Procs : TRUE

\* Process StageProc stands at line 127 on the fallback path, its device
\* buffer freshly allocated, with an arbitrary value in the host scratch
\* buffer.
StageInit ==
    /\ pc = [p \in Procs |-> IF p = StageProc THEN "L127" ELSE "L23"]
    /\ status = [p \in Procs |-> "running"]
    /\ kinds = [p \in Procs |-> NoKey]
    /\ flag = [p \in Procs |-> 0]
    /\ val = [p \in Procs |-> "NULL"]
    /\ nranks = [p \in Procs |-> 0]
    /\ \E v \in StageValues : \E g \in Indeterminate :
          mem = [p \in Procs |->
                   [c \in Cells |-> IF p = StageProc /\ c = "system_buf" THEN v
                                    ELSE IF p = StageProc /\ c = "device_buf" THEN g
                                    ELSE 0]]
    /\ ptr = [p \in Procs |->
                [b \in Buffers |-> IF p = StageProc /\ b = "system_buf" THEN KindSystem
                                   ELSE IF p = StageProc /\ b = "device_buf" THEN KindDevice
                                   ELSE "NULL"]]
    /\ session = [p \in Procs |-> "none"]
    /\ wgroup = [p \in Procs |-> "none"]
    /\ comm = [p \in Procs |-> [h \in Comms |-> NullComm]]
    /\ stream = [p \in Procs |-> <<>>]
    /\ coll = [p \in Procs |-> NoCall]
    /\ ops = [p \in Procs |-> <<>>]
    /\ hostAccess = [p \in Procs |-> {}]
    /\ nAcquire = [p \in Procs |-> [r \in Resources |-> 0]]
    /\ nRelease = [p \in Procs |-> [r \in Resources |-> 0]]
    /\ diag = [p \in Procs |-> 0]

\* Nothing writes either buffer between staging out and staging back: the
\* reduction of line 146 is passed over.
StagePassReduce ==
    /\ At(StageProc, "L146")
    /\ Goto(StageProc, "L148")
    /\ UNCHANGED <<status, kinds, flag, val, nranks, mem, ptr, session, wgroup,
                   comm, stream, coll, ops, hostAccess, nAcquire, nRelease, diag>>

StageNext ==
    \/ CopyInit(StageProc) \/ SyncInit(StageProc)
    \/ StageOut(StageProc) \/ SyncStageOut(StageProc)
    \/ StagePassReduce
    \/ StageBack(StageProc) \/ SyncStageBack(StageProc)
    \/ StreamExec(StageProc)

\* The copies and synchronizations of lines 127-151 applied to every value
\* of StageValues and every initial content of the device buffer.
StageSpec == StageInit /\ [][StageNext]_vars

\* C8: staging never changes the value v of the host scratch buffer, and
\* after each synchronization (lines 130, 145, 151) the device buffer holds
\* v as well: host->device, device->host and host->device again round-trip
\* v unchanged.
C8_StagingRoundTrip ==
    [][ /\ mem'[StageProc]["system_buf"] = mem[StageProc]["system_buf"]
        /\ pc'[StageProc] \in {"L131", "L146", "L148", "L152"}
              => mem'[StageProc]["device_buf"] = mem'[StageProc]["system_buf"] ]_vars

\* The round trip of the two-byte value 258 is complete.
C8_Witness ==
    /\ pc[StageProc] = "L152"
    /\ mem[StageProc]["system_buf"] = 258
    /\ mem[StageProc]["device_buf"] = 258

\* ------------------------------------------------------------ communicators

IsCreate(c) == c.op = "create"

\* The communicator creations p has entered, in order.
Creates(p) == SelectSeq(ops[p], IsCreate)

\* C9: the first group operation of a process creates the system
\* communicator, which is created only once; a process that has negotiated
\* Managed or Device has created exactly one further communicator, of that
\* kind, and one that has negotiated System none; the managed and the device
\* communicator are never both live.
C9_CommunicatorCreation ==
    \A p \in Procs :
        /\ ops[p] # <<>> => IsCreate(ops[p][1]) /\ ops[p][1].kind = KindSystem
        /\ \A k \in 2..Len(ops[p]) : IsCreate(ops[p][k]) => ops[p][k].kind # KindSystem
        /\ Len(Creates(p)) <= 2
        /\ Negotiated(p) =>
              LET cs == Creates(p)
              IN  IF NegotiatedKind(p) = KindSystem
                  THEN Len(cs) = 1
                  ELSE Len(cs) = 2 /\ cs[2].kind = NegotiatedKind(p)
        /\ ~(/\ comm[p]["cuda_managed_comm"].state = "live"
             /\ comm[p]["cuda_device_comm"].state = "live")

\* One process holds the managed communicator it negotiated, and every
\* process advertises device support as well.
C9_Witness ==
    /\ \A p \in Procs : Advertises(p, KindDevice)
    /\ \E p \in Procs :
          /\ Negotiated(p)
          /\ comm[p]["cuda_managed_comm"].state = "live"
          /\ Len(Creates(p)) = 2

\* C10: no communicator or buffer is released more often than it was
\* created, and once the session is finalized (normal termination) every
\* communicator and buffer created has been released exactly once and
\* every handle is MPI_COMM_NULL.
C10_ReleasedExactlyOnce ==
    \A p \in Procs :
        /\ \A r \in Resources : nRelease[p][r] <= nAcquire[p][r] /\ nAcquire[p][r] <= 1
        /\ session[p] = "finalized" =>
              /\ \A r \in Resources : nRelease[p][r] = nAcquire[p][r]
              /\ \A h \in Comms : comm[p][h].state = "null"
              /\ \A b \in Buffers : ptr[p][b] \in {"NULL", "freed"}

\* A process has finalized its session after releasing the device
\* communicator, the system communicator and both of its buffers.
C10_Witness ==
    \E p \in Procs :
        /\ session[p] = "finalized"
        /\ nRelease[p]["cuda_device_comm"] = 1
        /\ nRelease[p]["system_comm"] = 1
        /\ nRelease[p]["device_buf"] = 1
        /\ nRelease[p]["system_buf"] = 1

\* ------------------------------------------------------- allocation failure

\* C11: a process that returned 1 because malloc of the string copy failed
\* has derived no process group, created no communicator and entered no
\* collective operation.
C11_Exit1BeforeAnyGroupOperation ==
    \A p \in Procs :
        status[p] = "exit1" =>
            /\ pc[p] = "done"
            /\ wgroup[p] = "none"
            /\ ops[p] = <<>> /\ coll[p] = NoCall
            /\ \A h \in Comms : comm[p][h] = NullComm /\ nAcquire[p][h] = 0

\* One process has returned 1 while another has gone on and entered the
\* creation of the system communicator.
C11_Witness ==
    \E p, q \in Procs :
        /\ status[p] = "exit1"
        /\ ops[q] # <<>>

\* --------------------------------------------------------------- diagnostic

\* C12: a process prints the warning exactly once when its negotiation ends
\* in System, and never when it ends in Managed or Device (nor before the
\* negotiation has ended).
C12_OneWarningIffSystem ==
    \A p \in Procs :
        diag[p] = IF Negotiated(p) /\ NegotiatedKind(p) = KindSystem THEN 1 ELSE 0

\* A process that advertises device support has fallen back to System,
\* printed the warning and exited normally.
C12_Witness ==
    \E p \in Procs :
        /\ Advertises(p, KindDevice)
        /\ status[p] = "exit0"
        /\ diag[p] = 1

\* ------------------------------------------------------ capability parsing

\* Bound of the parsed values: at most MaxTokens comma-separated tokens.
MaxTokens == 2

\* Tokens of the parsed values: the identifiers in lower and mixed case,
\* with a leading or trailing blank, other words, and the empty token.
ParseTokens ==
    { "cuda:device", "CUDA:Device", " cuda:device",
      "cuda:managed", "Cuda:Managed", "cuda:managed ",
      "system", "cuda", "" }

TokenSeqs == UNION {[1..n -> ParseTokens] : n \in 1..MaxTokens}

\* The tokens of toks from the i-th on, separated by commas.
RECURSIVE JoinFrom(_, _)
JoinFrom(toks, i) ==
    IF i > Len(toks) THEN ""
    ELSE IF i = Len(toks) THEN toks[i]
    ELSE toks[i] \o "," \o JoinFrom(toks, i + 1)

Join(toks) == JoinFrom(toks, 1)

\* The process whose query is exercised.
ParseProc == CHOOSE p \in Procs : TRUE

\* Process ParseProc starts main() with an arbitrary value of
\* "mpi_memory_alloc_kinds" (or without the key).
ParseInit ==
    /\ pc = [p \in Procs |-> "L23"]
    /\ status = [p \in Procs |-> "running"]
    /\ \E s \in {Join(t) : t \in TokenSeqs} \cup {NoKey} :
          kinds = [p \in Procs |-> IF p = ParseProc THEN s ELSE NoKey]
    /\ flag = [p \in Procs |-> 0]
    /\ val = [p \in Procs |-> "NULL"]
    /\ nranks = [p \in Procs |-> 0]
    /\ mem = [p \in Procs |-> [c \in Cells |-> 0]]
    /\ ptr = [p \in Procs |-> [b \in Buffers |-> "NULL"]]
    /\ session = [p \in Procs |-> "none"]
    /\ wgroup = [p \in Procs |-> "none"]
    /\ comm = [p \in Procs |-> [h \in Comms |-> NullComm]]
    /\ stream = [p \in Procs |-> <<>>]
    /\ coll = [p \in Procs |-> NoCall]
    /\ ops = [p \in Procs |-> <<>>]
    /\ hostAccess = [p \in Procs |-> {}]
    /\ nAcquire = [p \in Procs |-> [r \in Resources |-> 0]]
    /\ nRelease = [p \in Procs |-> [r \in Resources |-> 0]]
    /\ diag = [p \in Procs |-> 0]

ParseNext ==
    \/ SessionInit(ParseProc)
    \/ MallocVal(ParseProc)
    \/ ParseInfo(ParseProc)

\* Lines 23-53 of one process applied to every value built from at most
\* MaxTokens tokens of ParseTokens.
ParseSpec == ParseInit /\ [][ParseNext]_vars

\* t without its leading and trailing blanks.
RECURSIVE SkipBlanks(_, _)
SkipBlanks(t, i) ==
    IF i <= Len(t) /\ SubSeq(t, i, i) = " " THEN SkipBlanks(t, i + 1) ELSE i

RECURSIVE DropBlanks(_, _)
DropBlanks(t, j) ==
    IF j >= 1 /\ SubSeq(t, j, j) = " " THEN DropBlanks(t, j - 1) ELSE j

Trim(t) ==
    IF SkipBlanks(t, 1) > Len(t) THEN ""
    ELSE SubSeq(t, SkipBlanks(t, 1), DropBlanks(t, Len(t)))

\* t in lower case.
RECURSIVE LowerFrom(_, _)
LowerFrom(t, i) ==
    IF i > Len(t) THEN "" ELSE ToLower(SubSeq(t, i, i)) \o LowerFrom(t, i + 1)

LowerCase(t) == LowerFrom(t, 1)

\* 1 if k occurs in toks, else 0.
Occurs(k, toks) == IF \E i \in 1..Len(toks) : toks[i] = k THEN 1 ELSE 0

\* For every token sequence: the value it forms, the flags
\* <<managed, device>> read off its tokens compared ignoring case, without
\* and with trimming, and the value formed by its recognized tokens alone.
ParseTable ==
    { LET low == [i \in 1..Len(t) |-> LowerCase(t[i])]
          trm == [i \in 1..Len(t) |-> LowerCase(Trim(t[i]))]
          rec == SelectSeq(low, LAMBDA x : x \in {KindManaged, KindDevice})
      IN  [s |-> Join(t),
           exact |-> <<Occurs(KindManaged, low), Occurs(KindDevice, low)>>,
           trimmed |-> <<Occurs(KindManaged, trm), Occurs(KindDevice, trm)>>,
           recognized |-> Join(rec)]
      : t \in TokenSeqs }

\* The flags of ParseProc once the query is over (line 53 reached).
ParsedFlags ==
    <<mem[ParseProc]["cuda_managed_aware"], mem[ParseProc]["cuda_device_aware"]>>

\* C13 as stated: without the key no kind is reported; with it, a kind is
\* reported exactly when its identifier is one of the comma-separated
\* tokens after trimming blanks and ignoring case.
C13_ParseTrimmed ==
    pc[ParseProc] = "L53" =>
        IF kinds[ParseProc] = NoKey THEN ParsedFlags = <<0, 0>>
        ELSE \A e \in ParseTable :
                e.s = kinds[ParseProc] => ParsedFlags = e.trimmed

\* C13 amended: without the key no kind is reported; with it, a kind is
\* reported exactly when its identifier equals one of the comma-separated
\* tokens ignoring case (blanks are part of the token), and the other
\* tokens do not change the result: the recognized tokens alone parse to
\* the same flags.
C13_ParseUntrimmed ==
    pc[ParseProc] = "L53" =>
        IF kinds[ParseProc] = NoKey THEN ParsedFlags = <<0, 0>>
        ELSE \A e \in ParseTable :
                e.s = kinds[ParseProc] =>
                    /\ ParsedFlags = e.exact
                    /\ ParsedFlags = ParseKinds(e.recognized)

\* The value "cuda,CUDA:Device" has been parsed: device support is
\* reported, managed support is not.
C13_Witness ==
    /\ pc[ParseProc] = "L53"
    /\ kinds[ParseProc] = "cuda,CUDA:Device"
    /\ ParsedFlags = <<0, 1>>

\* -------------------------------------------------------- rank permutation

\* The flags <<cuda_managed_aware, cuda_device_aware>> of a process after
\* lines 33-51, for each value the runtime may report.
AdvertisedFlags ==
    [s \in AdvertisedStrings |-> IF s = NoKey THEN <<0, 0>> ELSE ParseKinds(s)]

\* Lines 67-101 as a function of the values adv[q] reported to the
\* processes: the kind process p negotiates.
Negotiate(adv, p) ==
    IF Allreduce("MPI_LAND", [q \in Procs |-> AdvertisedFlags[adv[q]][1]], p) # 0
    THEN KindManaged
    ELSE IF Allreduce("MPI_LAND", [q \in Procs |-> AdvertisedFlags[adv[q]][2]], p) # 0
    THEN KindDevice
    ELSE KindSystem

RankPermutations == {f \in [Procs -> Procs] : \A r \in Procs : \E q \in Procs : f[q] = r}

\* C14: the kind a process has negotiated at the end of the negotiation is
\* the kind every process negotiates when the reported values are assigned
\* to the ranks in any other order.
C14_PermutationInvariant ==
    \A p \in Procs :
        pc[p] = "L103" =>
            \A f \in RankPermutations : \A q \in Procs :
                Negotiate([r \in Procs |-> kinds[f[r]]], q) = NegotiatedKind(p)

\* A process ends the negotiation with Device in a run where the ranks
\* report different values, one of them managed support.
C14_Witness ==
    \E p, q \in Procs :
        /\ pc[p] = "L103"
        /\ NegotiatedKind(p) = KindDevice
        /\ kinds[p] # kinds[q]
        /\ Advertises(q, KindManaged)

\* -------------------------------------------------- negotiation reductions

IsLand(c) == c.rop = "MPI_LAND"

\* The MPI_LAND reductions p has entered, in order.
Lands(p) == SelectSeq(ops[p], IsLand)

\* C16: the first negotiation reduction of a process is over the managed
\* flag; a second one exists only after the managed reduction gave false
\* and is over the device flag; a process that has negotiated Managed has
\* entered exactly one negotiation reduction, one that has negotiated
\* Device or System exactly two; no reduction is over anything but the two
\* accelerator flags.
C16_ManagedBeforeDevice ==
    \A p \in Procs :
        LET ls == Lands(p)
        IN  /\ Len(ls) <= 2
            /\ \A k \in 1..Len(ls) : ls[k].buf \in Flags /\ ls[k].h = "system_comm"
            /\ Len(ls) >= 1 => ls[1].buf = "cuda_managed_aware"
            /\ Len(ls) = 2 =>
                  /\ ls[2].buf = "cuda_device_aware"
                  /\ mem[p]["cuda_managed_aware"] = 0
            /\ Negotiated(p) =>
                  Len(ls) = IF NegotiatedKind(p) = KindManaged THEN 1 ELSE 2

\* A process has negotiated Device after two negotiation reductions, in a
\* run where another process reports managed support.
C16_Witness ==
    \E p, q \in Procs :
        /\ Negotiated(p) /\ NegotiatedKind(p) = KindDevice
        /\ Len(Lands(p)) = 2
        /\ Advertises(q, KindManaged)

\* ------------------------------------------------------ matching creations

\* C17: the k-th communicator creation of every process asserts the same
\* kind under the same string tag, two processes blocked in a creation are
\* in the same creation, and no process enters more creations than a
\* process that has finished its negotiation: all processes that get
\* through the negotiation call the creation the same number of times.
C17_CreationsMatch ==
    \A p, q \in Procs :
        LET cp == Creates(p)
            cq == Creates(q)
        IN  /\ \A k \in 1..MinLen(cp, cq) :
                  cp[k].kind = cq[k].kind /\ cp[k].tag = cq[k].tag
            /\ coll[p] # NoCall /\ coll[q] # NoCall /\ IsCreate(coll[p])
                  => IsCreate(coll[q]) /\ coll[q].kind = coll[p].kind
                                       /\ coll[q].tag = coll[p].tag
            /\ Negotiated(p) => Len(cq) <= Len(cp)

\* Two processes that report different values have both finished the
\* negotiation with two creations each.
C17_Witness ==
    \E p, q \in Procs :
        /\ kinds[p] # kinds[q]
        /\ Negotiated(p) /\ Negotiated(q)
        /\ Len(Creates(p)) = 2 /\ Len(Creates(q)) = 2

\* ------------------------------------------------------------ fallback path

\* C18: on the fallback path, once the copy back to the device has been
\* synchronized (line 151) and until the buffers are freed, the device
\* buffer holds the same value as the host scratch buffer, the number of
\* processes.
C18_FallbackDeviceHoldsN ==
    \A p \in Procs :
        (pc[p] = "L152" \/ (pc[p] = "L155" /\ NegotiatedKind(p) = KindSystem)) =>
            /\ mem[p]["device_buf"] = mem[p]["system_buf"]
            /\ mem[p]["system_buf"] = NumProcs
            /\ nranks[p] = NumProcs

\* A process on the fallback path has passed its verification and still
\* holds both buffers.
C18_Witness ==
    \E p \in Procs :
        /\ pc[p] = "L155" /\ NegotiatedKind(p) = KindSystem
        /\ ptr[p]["device_buf"] = KindDevice
        /\ mem[p]["device_buf"] = NumProcs

\* ---------------------------------------------------------- reduction paths

IsSum(c) == c.rop = "MPI_SUM"

\* The MPI_SUM reductions p has entered, in order.
Sums(p) == SelectSeq(ops[p], IsSum)

\* Statements of the three paths: the if branch of line 106, the if branch
\* of line 131 and its else branch.
ManagedLabels == {"L113", "L116", "L118"}
DeviceLabels == {"L134", "L137"}
FallbackLabels == {"L145", "L146", "L148", "L151", "L152"}

\* The buffer reduced on the path of each negotiated kind.
PathBuffer(k) ==
    CASE k = KindManaged -> "managed_buf"
      [] k = KindDevice -> "device_buf"
      [] k = KindSystem -> "system_buf"

\* Where p stands in lines 106-157: 0 before line 106 (or returned 1),
\* 1 (Init) while its buffer is allocated and set to 1, up to the call or
\* branch that starts the reduction, 2 (Reducing) from there until the
\* assert has passed, 3 (Verified) afterwards.  An aborted process stays
\* in 2.
Phase(p) ==
    IF status[p] = "exit1" THEN 0
    ELSE IF status[p] = "exit0" THEN 3
    ELSE IF status[p] # "running" THEN 2
    ELSE IF pc[p] \in NegotiationLabels \cup {"L103"} THEN 0
    ELSE IF pc[p] \in {"L106", "L126", "L127", "L130", "L131"} THEN 1
    ELSE IF pc[p] \in {"L113", "L146"} /\ coll[p] = NoCall
         THEN (IF pc[p] = "L113" THEN 1 ELSE 2)
    ELSE IF pc[p] \in {"L113", "L116", "L134", "L137", "L145", "L146", "L148",
                       "L151", "L152"} THEN 2
    ELSE 3

\* C19: in every step, each process stays in its phase or moves to the
\* next one (Init, Reducing, Verified, never back); it is on the path of
\* its negotiated kind only; it has entered at most one sum reduction, over
\* the buffer of that path, and exactly one once it is verified.
C19_OnePathOneReduction ==
    [][ \A p \in Procs :
          /\ Phase(p)' \in {Phase(p), Phase(p) + 1}
          /\ pc'[p] \in ManagedLabels => NegotiatedKind(p)' = KindManaged
          /\ pc'[p] \in DeviceLabels => NegotiatedKind(p)' = KindDevice
          /\ pc'[p] \in FallbackLabels => NegotiatedKind(p)' = KindSystem
          /\ Len(Sums(p)') <= 1
          /\ Len(Sums(p)') = 1 => Sums(p)'[1].buf = PathBuffer(NegotiatedKind(p)')
          /\ Phase(p)' = 3 => Len(Sums(p)') = 1 ]_vars

\* Processes that report different values have both exited normally after
\* one sum reduction over the managed buffer.
C19_Witness ==
    \E p, q \in Procs :
        /\ kinds[p] # kinds[q]
        /\ status[p] = "exit0" /\ status[q] = "exit0"
        /\ Len(Sums(p)) = 1 /\ Sums(p)[1].buf = "managed_buf"

\* C20: a process about to issue its sum reduction, or blocked in it, holds
\* the value 1 in the buffer it passes and has no copy outstanding; on the
\* else branch the device buffer already holds 1, with the initializing
\* copy synchronized, when line 131 chooses between the reduction and the
\* staging copy.
C20_ContributionIsOne ==
    \A p \in Procs :
        /\ coll[p] # NoCall /\ IsSum(coll[p]) =>
              mem[p][coll[p].buf] = Contribution /\ stream[p] = <<>>
        /\ At(p, "L113") => mem[p]["managed_buf"] = Contribution
        /\ At(p, "L131") => mem[p]["device_buf"] = Contribution /\ stream[p] = <<>>
        /\ At(p, "L146") => mem[p]["system_buf"] = Contribution /\ stream[p] = <<>>

\* A process is blocked in the sum reduction over the host scratch buffer,
\* whose value 1 came back from the device buffer.
C20_Witness ==
    \E p \in Procs :
        /\ coll[p] # NoCall /\ IsSum(coll[p])
        /\ coll[p].buf = "system_buf"
        /\ mem[p]["device_buf"] = Contribution
        /\ mem[p]["system_buf"] = Contribution

====
